---- MODULE Spec2Model ----
(***************************************************************************)
(* RoadQuilla: the Transmetro route simulator.                             *)
(*                                                                         *)
(* src/graph.py  Graph: cargar_estaciones, cargar_rutas, agregar_arista,   *)
(*               cargar_cache_aristas, ruta_mas_corta                      *)
(* src/app.py    main: build the graph, ask for a query, add up the time   *)
(*                                                                         *)
(* Station names are modelled as naturals ordered as Python orders the     *)
(* strings they stand for; 0 is the empty string, the least string.        *)
(* Coordinates are points 0, 1, 2, ... on one meridian, one grid unit      *)
(* apart, and distances are counted in grid units.                         *)
(***************************************************************************)
EXTENDS Integers, Sequences, FiniteSets, TLC

VARIABLES
    pc,                \* where the program is
    error,             \* the exception that ended the program, or "none"
    coords,            \* Graph.coords: nombre -> point (same keys as Graph.nodos)
    aristas,           \* Graph.aristas: nombre -> ordered dict of edges
    rutas_por_nombre,  \* local of cargar_rutas: ordered dict ruta -> lista
    cache,             \* local of cargar_cache_aristas: the loaded JSON
    llamadas,          \* calls of cargar_cache_aristas made so far
    origen, destino,   \* the arguments of ruta_mas_corta
    dist, prev, pq,    \* locals of ruta_mas_corta
    pops,              \* iterations of the while pq loop made so far
    x, camino,         \* locals of the path reconstruction
    retorno,           \* what ruta_mas_corta returned: "none" yet, "sentinel", "ruta"
    ruta, distancia,   \* the pair returned when retorno = "ruta"
    tiempo_total       \* app.main's total time

vars == <<pc, error, coords, aristas, rutas_por_nombre, cache, llamadas,
          origen, destino, dist, prev, pq, pops, x, camino, retorno, ruta,
          distancia, tiempo_total>>

grafo == <<coords, aristas>>
consulta == <<origen, destino, dist, prev, pq, pops, x, camino, retorno, ruta,
              distancia, tiempo_total>>

----------------------------------------------------------------------------
(* Bounds of the model *)

MaxNombre == 2      \* station names are 0..MaxNombre
MaxFilas == 3       \* rows of the routes file (topology specification)
MaxParadas == 4     \* rows of the routes file (query specification)
MaxEntradas == 2    \* entries of the cache JSON (cache specification)
MaxLlamadas == 2    \* calls of cargar_cache_aristas (cache specification)
MaxPops == 8        \* iterations of the while pq loop that are followed
MaxCamino == 5      \* stations appended by the path reconstruction

----------------------------------------------------------------------------
(* Values *)

Vacio == 0                       \* the empty string ""
Ninguno == -1                    \* None where a station name is expected
Inf == 1000                      \* float("inf")

Nombres == 0..MaxNombre

\* The stations of the query specification: "" and three named ones, each
\* at the point of its own number or at point 0
NombresConsulta == {0, 1, 2, 3}
EstacionesConsulta ==
    {r \in [txt : NombresConsulta, pad : BOOLEAN, ok : BOOLEAN, p : NombresConsulta] :
       r.p \in {0, r.txt}}

SinTiempo == [some |-> FALSE, val |-> 0]          \* "time": None
Tiempo(t) == [some |-> TRUE, val |-> t]           \* "time": t

\* str.strip() of a CSV cell or of a line typed by the user: a cell is its
\* text without the surrounding blanks together with whether it had any.
Strip(celda) == celda.txt

\* if x: on a station name or None
Truthy(n) == n # Ninguno /\ n # Vacio

Range(s) == {s[i] : i \in DOMAIN s}

RECURSIVE Reverse(_)
Reverse(s) == IF s = <<>> THEN <<>> ELSE Append(Reverse(Tail(s)), Head(s))

----------------------------------------------------------------------------
(* Ordered dicts of edges: a sequence of [v, dist, time], one per key, in   *)
(* insertion order.                                                         *)

Claves(adj) == {adj[i].v : i \in DOMAIN adj}
Indice(adj, b) == CHOOSE i \in DOMAIN adj : adj[i].v = b
Arista(adj, b) == adj[Indice(adj, b)]

\* adj[b] = {"dist": d, "time": None}: a new key goes last, an old one keeps its place
Poner(adj, b, d) ==
    LET e == [v |-> b, dist |-> d, time |-> SinTiempo]
    IN IF b \in Claves(adj) THEN [adj EXCEPT ![Indice(adj, b)] = e]
       ELSE Append(adj, e)

\* haversine(lat1, lon1, lat2, lon2) / 1000 for two points of the meridian
Haversine(p, q) == IF p >= q THEN p - q ELSE q - p

agregar_arista(ar, co, a, b) ==
    LET d == Haversine(co[a], co[b])
        ar1 == [ar EXCEPT ![a] = Poner(ar[a], b, d)]
    IN [ar1 EXCEPT ![b] = Poner(ar1[b], a, d)]

----------------------------------------------------------------------------
(* cargar_estaciones *)

\* One row of the stations file: the name cell and the coordinate cells,
\* which parse to a point or do not parse.
FilasEstacion(nombres, puntos) ==
    [txt : nombres, pad : BOOLEAN, ok : BOOLEAN, p : puntos]

LeerEstacion(filas) ==
    /\ pc = "estaciones"
    /\ \E row \in filas :
         LET nombre == Strip(row)
         IN IF ~row.ok
            THEN UNCHANGED grafo
            ELSE /\ coords' = [n \in DOMAIN coords \cup {nombre} |->
                                 IF n = nombre THEN row.p ELSE coords[n]]
                 /\ aristas' = [n \in DOMAIN aristas \cup {nombre} |->
                                 IF n \in DOMAIN aristas THEN aristas[n] ELSE <<>>]
    /\ UNCHANGED <<pc, error, rutas_por_nombre, cache, llamadas, consulta>>

FinEstaciones ==
    /\ pc = "estaciones"
    /\ pc' = "rutas"
    /\ UNCHANGED <<error, grafo, rutas_por_nombre, cache, llamadas, consulta>>

----------------------------------------------------------------------------
(* cargar_rutas *)

\* One row of the routes file; the sequence cell parses to an integer or
\* does not parse.
FilasRuta(rutas, nombres, secuencias) ==
    [ruta : rutas, txt : nombres, pad : BOOLEAN, ok : BOOLEAN, seq : secuencias]

RECURSIVE FilasDesde(_, _)
FilasDesde(rpn, k) ==
    IF k > Len(rpn) THEN 0 ELSE Len(rpn[k].lista) + FilasDesde(rpn, k + 1)

\* rows read so far
TotalFilas == FilasDesde(rutas_por_nombre, 1)

\* rutas_por_nombre.setdefault(ruta, []).append((seq, parada))
Agrupar(rpn, r, t) ==
    IF \E i \in DOMAIN rpn : rpn[i].ruta = r
    THEN LET i == CHOOSE j \in DOMAIN rpn : rpn[j].ruta = r
         IN [rpn EXCEPT ![i].lista = Append(@, t)]
    ELSE Append(rpn, [ruta |-> r, lista |-> <<t>>])

\* The first loop of cargar_rutas, one row: int() of a sequence cell that
\* does not parse raises ValueError, which nothing catches.
LeerFilaRuta(filas, maxFilas) ==
    /\ pc = "rutas"
    /\ TotalFilas < maxFilas
    /\ \E row \in filas :
         IF ~row.ok
         THEN /\ pc' = "fin"
              /\ error' = "ValueError"
              /\ UNCHANGED rutas_por_nombre
         ELSE /\ rutas_por_nombre' =
                    Agrupar(rutas_por_nombre, row.ruta, <<row.seq, Strip(row)>>)
              /\ UNCHANGED <<pc, error>>
    /\ UNCHANGED <<grafo, cache, llamadas, consulta>>

\* (seq, parada) tuples compare as Python compares tuples
TuplaMenor(s, t) == s[1] < t[1] \/ (s[1] = t[1] /\ s[2] < t[2])

RECURSIVE Insertar(_, _)
Insertar(s, t) ==
    IF s = <<>> THEN <<t>>
    ELSE IF TuplaMenor(t, Head(s)) THEN <<t>> \o s
    ELSE <<Head(s)>> \o Insertar(Tail(s), t)

RECURSIVE OrdenarDesde(_, _)
OrdenarDesde(hecho, resto) ==
    IF resto = <<>> THEN hecho
    ELSE OrdenarDesde(Insertar(hecho, Head(resto)), Tail(resto))

\* A sort that compares the sequence numbers alone and keeps ties in input order
RECURSIVE InsertarPorSeq(_, _)
InsertarPorSeq(s, t) ==
    IF s = <<>> THEN <<t>>
    ELSE IF t[1] < Head(s)[1] THEN <<t>> \o s
    ELSE <<Head(s)>> \o InsertarPorSeq(Tail(s), t)

RECURSIVE OrdenarPorSeqDesde(_, _)
OrdenarPorSeqDesde(hecho, resto) ==
    IF resto = <<>> THEN hecho
    ELSE OrdenarPorSeqDesde(InsertarPorSeq(hecho, Head(resto)), Tail(resto))

OrdenarPorSeq(lista) == OrdenarPorSeqDesde(<<>>, lista)

\* lista.sort()
Ordenar(lista) == OrdenarDesde(<<>>, lista)

\* for i in range(len(lista)-1): the edges of one sorted route
RECURSIVE Conectar(_, _, _, _)
Conectar(ar, co, lista, i) ==
    IF i > Len(lista) - 1 THEN ar
    ELSE LET a == lista[i][2]
             b == lista[i + 1][2]
         IN Conectar(IF a \in DOMAIN co /\ b \in DOMAIN co
                     THEN agregar_arista(ar, co, a, b) ELSE ar,
                     co, lista, i + 1)

\* for ruta, lista in rutas_por_nombre.items()
RECURSIVE ConectarRutas(_, _, _, _)
ConectarRutas(ar, co, rpn, k) ==
    IF k > Len(rpn) THEN ar
    ELSE ConectarRutas(Conectar(ar, co, Ordenar(rpn[k].lista), 1), co, rpn, k + 1)

\* The second loop of cargar_rutas, at the end of the file: every lista is
\* sorted in place and its consecutive stations are joined.
ConstruirRutas ==
    /\ pc = "rutas"
    /\ aristas' = ConectarRutas(aristas, coords, rutas_por_nombre, 1)
    /\ rutas_por_nombre' =
         [k \in DOMAIN rutas_por_nombre |->
            [rutas_por_nombre[k] EXCEPT !.lista = Ordenar(@)]]
    /\ pc' = "rutas_fin"
    /\ UNCHANGED <<error, coords, cache, llamadas, consulta>>

\* cargar_rutas returns; its locals are gone
RetornarRutas ==
    /\ pc = "rutas_fin"
    /\ rutas_por_nombre' = <<>>
    /\ pc' = "cache"
    /\ UNCHANGED <<error, grafo, cache, llamadas, consulta>>


----------------------------------------------------------------------------
(* cargar_cache_aristas *)

Falta == [tag |-> "missing", val |-> 0]      \* the key is not in the entry
Nulo == [tag |-> "null", val |-> 0]          \* JSON null
Num(n) == [tag |-> "num", val |-> n]         \* a JSON number

\* f"{lat1},{lon1}|{lat2},{lon2}": one key per ordered pair of points
Clave(p, q) == <<p, q>>

RECURSIVE HastaK(_, _)
HastaK(S, n) ==
    IF n = 0 THEN {{}}
    ELSE LET menos == HastaK(S, n - 1)
         IN menos \cup {T \cup {s} : T \in menos, s \in S}

\* The entries of the cache specification: the empty dict, and a distance
\* with a time that is absent, null or a number
Entradas(dists, tiempos) ==
    {[dist |-> Falta, time_min |-> Falta]} \cup
    [dist : {Num(d) : d \in dists},
     time_min : {Falta, Nulo} \cup {Num(t) : t \in tiempos}]

\* The entries a measurement writes: a distance and a time
EntradasMedidas(dists, tiempos) ==
    [dist : {Num(d) : d \in dists}, time_min : {Num(t) : t \in tiempos}]

\* The JSON files: at most maxEntradas keys over the points, each with one
\* of the entries
Caches(puntos, entradas, maxEntradas) ==
    UNION {[K -> entradas] :
             K \in HastaK({Clave(p, q) : p \in puntos, q \in puntos}, maxEntradas)}

\* if datos: an entry with no key at all is an empty dict, which is falsy
DictTruthy(datos) == ~(datos.dist = Falta /\ datos.time_min = Falta)

\* k1 in cache, elif k2 in cache
Buscar(ca, p, q) ==
    IF Clave(p, q) \in DOMAIN ca THEN [hay |-> TRUE, datos |-> ca[Clave(p, q)]]
    ELSE IF Clave(q, p) \in DOMAIN ca THEN [hay |-> TRUE, datos |-> ca[Clave(q, p)]]
    ELSE [hay |-> FALSE, datos |-> [dist |-> Falta, time_min |-> Falta]]

\* A guard that takes any cached number for a time
AceptaCualquierTiempo(t) == t.tag = "num"

\* t = datos.get("time_min"); if t is not None and t > 0
AceptaTiempo(t) == t.tag = "num" /\ t.val > 0

\* The body of the loop for one edge e of a station at p towards one at q
Actualizar(e, m) ==
    IF m.hay /\ DictTruthy(m.datos)
    THEN [e EXCEPT
            !.dist = IF m.datos.dist.tag = "num" THEN m.datos.dist.val ELSE @,
            !.time = IF AceptaTiempo(m.datos.time_min)
                     THEN Tiempo(m.datos.time_min.val) ELSE @]
    ELSE e

\* A merge that keeps only the edges the cache knows
SoloAristasEnCache(ar, co, ca) ==
    [a \in DOMAIN ar |->
       SelectSeq([i \in DOMAIN ar[a] |->
                    Actualizar(ar[a][i], Buscar(ca, co[a], co[ar[a][i].v]))],
                 LAMBDA e : Buscar(ca, co[a], co[e.v]).hay)]

\* for a in self.aristas: for b in self.aristas[a]: ...
AristasTrasCache(ar, co, ca) ==
    [a \in DOMAIN ar |->
       [i \in DOMAIN ar[a] |->
          Actualizar(ar[a][i], Buscar(ca, co[a], co[ar[a][i].v]))]]

\* os.path.exists(archivo_json) is false: the call reports it and returns
CacheNoEncontrado(maxLlamadas) ==
    /\ pc = "cache"
    /\ llamadas < maxLlamadas
    /\ llamadas' = llamadas + 1
    /\ UNCHANGED <<pc, error, grafo, rutas_por_nombre, cache, consulta>>

\* cache = json.load(f)
LeerCache(caches, maxLlamadas) ==
    /\ pc = "cache"
    /\ llamadas < maxLlamadas
    /\ \E ca \in caches : cache' = ca
    /\ pc' = "cache_leida"
    /\ UNCHANGED <<error, grafo, rutas_por_nombre, llamadas, consulta>>

\* the loop over every edge
AplicarCache ==
    /\ pc = "cache_leida"
    /\ aristas' = AristasTrasCache(aristas, coords, cache)
    /\ pc' = "cache_fin"
    /\ UNCHANGED <<error, coords, rutas_por_nombre, cache, llamadas, consulta>>

\* cargar_cache_aristas returns; its locals are gone
RetornarCache ==
    /\ pc = "cache_fin"
    /\ cache' = <<>>
    /\ llamadas' = llamadas + 1
    /\ pc' = "cache"
    /\ UNCHANGED <<error, grafo, rutas_por_nombre, consulta>>


----------------------------------------------------------------------------
(* ruta_mas_corta, and the query of app.main *)

\* heapq.heappop(pq): the least (d, u) tuple; the other end of the order
HeapPopMayor(cola) == CHOOSE t \in cola : \A s \in cola : s = t \/ TuplaMenor(s, t)

HeapPop(cola) == CHOOSE t \in cola : \A s \in cola : s = t \/ TuplaMenor(t, s)

\* for v, datos in self.aristas[u].items(): relax the edges of u in the
\* order of the dict; s holds dist, prev and pq
RECURSIVE Relajar(_, _, _, _)
Relajar(s, u, adj, i) ==
    IF i > Len(adj) THEN s
    ELSE LET v == adj[i].v
             nueva == s.dist[u] + adj[i].dist
         IN IF nueva < s.dist[v]
            THEN Relajar([dist |-> [s.dist EXCEPT ![v] = nueva],
                          prev |-> [s.prev EXCEPT ![v] = u],
                          pq |-> s.pq \cup {<<nueva, v>>}],
                         u, adj, i + 1)
            ELSE Relajar(s, u, adj, i + 1)

\* The program ends with an exception nothing catches
Lanza(e) ==
    /\ pc' = "fin"
    /\ error' = e

\* origen = input(...).strip(); destino = input(...).strip(), and the first
\* lines of ruta_mas_corta
Consultar(nombres) ==
    /\ pc = "cache"
    /\ llamadas >= 1
    /\ \E o \in [txt : nombres, pad : BOOLEAN], d \in [txt : nombres, pad : BOOLEAN] :
         /\ origen' = Strip(o)
         /\ destino' = Strip(d)
         /\ dist' = [n \in DOMAIN aristas \cup {Strip(o)} |->
                       IF n = Strip(o) THEN 0 ELSE Inf]
         /\ pq' = {<<0, Strip(o)>>}
    /\ prev' = [n \in DOMAIN aristas |-> Ninguno]
    /\ pc' = "dijkstra"
    /\ UNCHANGED <<error, grafo, rutas_por_nombre, cache, llamadas, pops, x,
                   camino, retorno, ruta, distancia, tiempo_total>>

\* After the loop: if dist[destino] == float("inf"): return None, None;
\* otherwise camino = [], x = destino
Salida(d) ==
    IF destino \notin DOMAIN d
    THEN Lanza("KeyError") /\ UNCHANGED <<x, camino, retorno>>
    ELSE IF d[destino] = Inf
    THEN /\ retorno' = "sentinel"
         /\ pc' = "main"
         /\ UNCHANGED <<error, x, camino>>
    ELSE /\ x' = destino
         /\ camino' = <<>>
         /\ pc' = "camino"
         /\ UNCHANGED <<error, retorno>>

\* One iteration of while pq
Iterar ==
    /\ pc = "dijkstra"
    /\ pq # {}
    /\ pops < MaxPops
    /\ pops' = pops + 1
    /\ LET cima == HeapPop(pq)
           d == cima[1]
           u == cima[2]
           resto == pq \ {cima}
       IN IF u = destino
          THEN /\ pq' = resto
               /\ Salida(dist)
               /\ UNCHANGED <<dist, prev>>
          ELSE IF d # dist[u]
          THEN /\ pq' = resto
               /\ UNCHANGED <<pc, error, dist, prev, x, camino, retorno>>
          ELSE IF u \notin DOMAIN aristas
          THEN /\ pq' = resto
               /\ Lanza("KeyError")
               /\ UNCHANGED <<dist, prev, x, camino, retorno>>
          ELSE LET s == Relajar([dist |-> dist, prev |-> prev, pq |-> resto],
                                u, aristas[u], 1)
               IN /\ dist' = s.dist
                  /\ prev' = s.prev
                  /\ pq' = s.pq
                  /\ UNCHANGED <<pc, error, x, camino, retorno>>
    /\ UNCHANGED <<grafo, rutas_por_nombre, cache, llamadas, origen, destino,
                   ruta, distancia, tiempo_total>>

\* pq is empty: the loop ends
ColaVacia ==
    /\ pc = "dijkstra"
    /\ pq = {}
    /\ Salida(dist)
    /\ UNCHANGED <<grafo, rutas_por_nombre, cache, llamadas, origen, destino,
                   dist, prev, pq, pops, ruta, distancia, tiempo_total>>

\* One iteration of while x: camino.append(x); x = prev[x]
Retroceder ==
    /\ pc = "camino"
    /\ Truthy(x)
    /\ Len(camino) < MaxCamino
    /\ camino' = Append(camino, x)
    /\ IF x \in DOMAIN prev
       THEN x' = prev[x] /\ UNCHANGED <<pc, error>>
       ELSE Lanza("KeyError") /\ UNCHANGED x
    /\ UNCHANGED <<grafo, rutas_por_nombre, cache, llamadas, origen, destino,
                   dist, prev, pq, pops, retorno, ruta, distancia, tiempo_total>>

\* x is falsy: camino.reverse(); return camino, dist[destino]
RetornarRuta ==
    /\ pc = "camino"
    /\ ~Truthy(x)
    /\ retorno' = "ruta"
    /\ ruta' = Reverse(camino)
    /\ distancia' = dist[destino]
    /\ pc' = "main"
    /\ UNCHANGED <<error, grafo, rutas_por_nombre, cache, llamadas, origen,
                   destino, dist, prev, pq, pops, x, camino, tiempo_total>>

\* for i in range(len(ruta)-1): t = grafo.aristas[a][b].get("time");
\* if t: tiempo_total += t
RECURSIVE SumarTiempos(_, _, _)
SumarTiempos(ar, r, i) ==
    IF i > Len(r) - 1 THEN 0
    ELSE LET t == Arista(ar[r[i]], r[i + 1]).time
         IN (IF t.some /\ t.val # 0 THEN t.val ELSE 0) + SumarTiempos(ar, r, i + 1)

\* app.main after the query: if not ruta: return; otherwise the total time
TiempoTotal ==
    /\ pc = "main"
    /\ IF retorno = "sentinel" \/ ruta = <<>>
       THEN UNCHANGED tiempo_total
       ELSE tiempo_total' = SumarTiempos(aristas, ruta, 1)
    /\ pc' = "fin"
    /\ UNCHANGED <<error, grafo, rutas_por_nombre, cache, llamadas, origen,
                   destino, dist, prev, pq, pops, x, camino, retorno, ruta,
                   distancia>>

----------------------------------------------------------------------------
Init ==
    /\ pc = "estaciones"
    /\ error = "none"
    /\ coords = <<>>
    /\ aristas = <<>>
    /\ rutas_por_nombre = <<>>
    /\ cache = <<>>
    /\ llamadas = 0
    /\ origen = Ninguno
    /\ destino = Ninguno
    /\ dist = <<>>
    /\ prev = <<>>
    /\ pq = {}
    /\ pops = 0
    /\ x = Ninguno
    /\ camino = <<>>
    /\ retorno = "none"
    /\ ruta = <<>>
    /\ distancia = 0
    /\ tiempo_total = 0

\* The topology build alone: every station at one point, two routes, rows
\* in any order with repeated sequence numbers.
NextRutas ==
    \/ LeerEstacion(FilasEstacion(Nombres, {0}))
    \/ FinEstaciones
    \/ LeerFilaRuta(FilasRuta({1, 2}, Nombres, {1, 2}), MaxFilas)
    \/ ConstruirRutas
    \/ RetornarRutas

SpecRutas == Init /\ [][NextRutas]_vars

\* The cache merge: stations at two points, one route with its rows in
\* order, cache files of up to MaxEntradas entries, merged up to MaxLlamadas
\* times.
SecuenciaSiguiente == {TotalFilas + 1}

NextCache ==
    \/ LeerEstacion(FilasEstacion(1..2, {0, 1}))
    \/ FinEstaciones
    \/ LeerFilaRuta(FilasRuta({1}, 1..2, SecuenciaSiguiente), MaxFilas)
    \/ ConstruirRutas
    \/ RetornarRutas
    \/ CacheNoEncontrado(MaxLlamadas)
    \/ LeerCache(Caches({0, 1}, Entradas({3}, {0 - 1, 0, 2}), MaxEntradas), MaxLlamadas)
    \/ AplicarCache
    \/ RetornarCache

SpecCache == Init /\ [][NextCache]_vars

\* app.main: the build, one cache file of at most one entry, one query
Next ==
    \/ LeerEstacion(EstacionesConsulta)
    \/ FinEstaciones
    \/ LeerFilaRuta(FilasRuta({1}, NombresConsulta, SecuenciaSiguiente), MaxParadas)
    \/ ConstruirRutas
    \/ RetornarRutas
    \/ CacheNoEncontrado(1)
    \/ LeerCache(Caches(NombresConsulta, EntradasMedidas({0 - 1, 3}, {2}), 1), 1)
    \/ AplicarCache
    \/ RetornarCache
    \/ Consultar(NombresConsulta)
    \/ Iterar
    \/ ColaVacia
    \/ Retroceder
    \/ RetornarRuta
    \/ TiempoTotal

Spec == Init /\ [][Next]_vars

----------------------------------------------------------------------------
(* What the claims are stated with *)

\* the (a, b) pairs that have an edge
Pares(ar) == UNION {{<<a, b>> : b \in Claves(ar[a])} : a \in DOMAIN ar}

Min(S) == CHOOSE m \in S : \A n \in S : m <= n

\* The (seq, parada) tuple that stands at place k when lista is put in the
\* order of the tuples: fewer than k stops are below it, at least k are not
\* above it.
EnLugarPorTupla(lista, k) ==
    CHOOSE t \in Range(lista) :
      /\ Cardinality({j \in DOMAIN lista : TuplaMenor(lista[j], t)}) < k
      /\ k <= Cardinality({j \in DOMAIN lista : lista[j] = t \/ TuplaMenor(lista[j], t)})

\* The stop that stands at place k when lista is put in the order of the
\* sequence numbers alone, ties in input order
EnLugarEstable(lista, k) ==
    lista[CHOOSE j \in DOMAIN lista :
            Cardinality({i \in DOMAIN lista :
                           \/ lista[i][1] < lista[j][1]
                           \/ (lista[i][1] = lista[j][1] /\ i < j)}) = k - 1]

EnLugar(lista, k, estable) ==
    IF estable THEN EnLugarEstable(lista, k) ELSE EnLugarPorTupla(lista, k)

\* The edges between consecutive registered stations of the routes, each
\* route taken in the stable order or in the order of the tuples
ParesEsperados(rpn, co, estable) ==
    UNION {UNION {LET a == EnLugar(rpn[r].lista, k, estable)[2]
                      b == EnLugar(rpn[r].lista, k + 1, estable)[2]
                  IN IF a \in DOMAIN co /\ b \in DOMAIN co
                     THEN {<<a, b>>, <<b, a>>} ELSE {} :
                  k \in 1..(Len(rpn[r].lista) - 1)} :
           r \in DOMAIN rpn}

\* cargar_rutas has just sorted and connected the routes
RutasConstruidas == pc = "rutas" /\ pc' = "rutas_fin"

\* C6 as the spec states it: the stops of a route are ordered by sequence
\* number with a stable sort, stops with the same sequence number keeping
\* their input order, and cargar_rutas creates exactly the edges between
\* consecutive registered stations of that order.
C6_OrdenEstable ==
    [][RutasConstruidas =>
         Pares(aristas') = Pares(aristas) \cup
                           ParesEsperados(rutas_por_nombre, coords, TRUE)]_vars

\* C6 as amended: the stops of a route are ordered by the pair (sequence
\* number, station name), so stops with the same sequence number stand in
\* the order of their names whatever their input order, and cargar_rutas
\* creates exactly the edges between consecutive registered stations of
\* that order.
C6_OrdenPorTupla ==
    [][RutasConstruidas =>
         Pares(aristas') = Pares(aristas) \cup
                           ParesEsperados(rutas_por_nombre, coords, FALSE)]_vars

\* A route was built in which two stops with the same sequence number and
\* different names stand side by side, and they were joined.
C6_Testigo ==
    /\ pc = "rutas_fin"
    /\ \E r \in DOMAIN rutas_por_nombre :
         LET lista == rutas_por_nombre[r].lista
         IN \E k \in 1..(Len(lista) - 1) :
              /\ lista[k][1] = lista[k + 1][1]
              /\ lista[k][2] # lista[k + 1][2]
              /\ <<lista[k][2], lista[k + 1][2]>> \in Pares(aristas)

\* C7: a route record whose sequence number does not parse is skipped and
\* the build goes on: reading the routes file never ends the program with
\* an error.
C7_FilaOmitida == error # "ValueError"

\* C1: the graph is symmetric: if aristas[a][b] exists then aristas[b][a]
\* exists and both carry the same dist and the same time.
C1_Simetria ==
    \A a \in DOMAIN aristas : \A i \in DOMAIN aristas[a] :
      LET e == aristas[a][i]
      IN /\ a \in Claves(aristas[e.v])
         /\ Arista(aristas[e.v], a).dist = e.dist
         /\ Arista(aristas[e.v], a).time = e.time

\* cargar_cache_aristas has just run its loop over the edges
CacheAplicada == pc = "cache_leida" /\ pc' = "cache_fin"

\* The cache has an entry for the edge from a station at p to one at q,
\* under one key or the other
Coincide(ca, p, q) == Clave(p, q) \in DOMAIN ca \/ Clave(q, p) \in DOMAIN ca

\* The entry matched for that edge: the one under the key of its own
\* direction when there is one, else the one under the key of the other
Coincidente(ca, p, q) ==
    IF Clave(p, q) \in DOMAIN ca THEN ca[Clave(p, q)] ELSE ca[Clave(q, p)]

TiempoPositivo(datos) == datos.time_min.tag = "num" /\ datos.time_min.val > 0

\* C4: the merge replaces the time of an edge only when the matched cache
\* entry has a time_min that is present and strictly greater than zero;
\* when the matched entry's time_min is missing, null, zero or negative the
\* time of the edge is after the merge what it was before.
C4_GuardaTiempo ==
    [][CacheAplicada =>
         \A a \in DOMAIN aristas : \A i \in DOMAIN aristas[a] :
           LET antes == aristas[a][i]
               despues == aristas'[a][i]
               p == coords[a]
               q == coords[antes.v]
           IN /\ despues.time # antes.time =>
                   /\ Coincide(cache, p, q)
                   /\ TiempoPositivo(Coincidente(cache, p, q))
                   /\ despues.time = Tiempo(Coincidente(cache, p, q).time_min.val)
              /\ (Coincide(cache, p, q) /\ ~TiempoPositivo(Coincidente(cache, p, q)))
                   => despues.time = antes.time]_vars

\* A merge has gone over an edge that had a time, with a matched entry whose
\* time_min is zero or negative, and over an edge that had none, with a
\* matched entry whose time_min is missing or null.
C4_Testigo ==
    /\ pc = "cache_fin"
    /\ \E a \in DOMAIN aristas : \E i \in DOMAIN aristas[a] :
         LET p == coords[a]
             q == coords[aristas[a][i].v]
         IN /\ aristas[a][i].time.some
            /\ Coincide(cache, p, q)
            /\ Coincidente(cache, p, q).time_min.tag = "num"
            /\ Coincidente(cache, p, q).time_min.val <= 0
    /\ \E a \in DOMAIN aristas : \E i \in DOMAIN aristas[a] :
         LET p == coords[a]
             q == coords[aristas[a][i].v]
         IN /\ ~aristas[a][i].time.some
            /\ Coincide(cache, p, q)
            /\ Coincidente(cache, p, q).time_min.tag \in {"missing", "null"}

\* C5: the merge leaves the topology as it was: the stations and the (a, b)
\* pairs that have an edge are the same after it as before it, and an edge
\* matched under neither key keeps its dist and its time.
C5_TopologiaIntacta ==
    [][CacheAplicada =>
         /\ coords' = coords
         /\ DOMAIN aristas' = DOMAIN aristas
         /\ Pares(aristas') = Pares(aristas)
         /\ \A a \in DOMAIN aristas : Len(aristas'[a]) = Len(aristas[a])
         /\ \A a \in DOMAIN aristas : \A b \in Claves(aristas[a]) :
              ~Coincide(cache, coords[a], coords[b]) =>
                 /\ Arista(aristas'[a], b).dist = Arista(aristas[a], b).dist
                 /\ Arista(aristas'[a], b).time = Arista(aristas[a], b).time]_vars

\* A merge has run with a cache that has a key matching no edge, over a
\* graph with an edge the cache has nothing for and an edge whose dist it
\* has replaced.
C5_Testigo ==
    /\ pc = "cache_fin"
    /\ \E k \in DOMAIN cache :
         \A a \in DOMAIN aristas : \A b \in Claves(aristas[a]) :
           k \notin {Clave(coords[a], coords[b]), Clave(coords[b], coords[a])}
    /\ \E a \in DOMAIN aristas : \E b \in Claves(aristas[a]) :
         ~Coincide(cache, coords[a], coords[b])
    /\ \E a \in DOMAIN aristas : \E b \in Claves(aristas[a]) :
         /\ Coincide(cache, coords[a], coords[b])
         /\ Arista(aristas[a], b).dist # Haversine(coords[a], coords[b])

----------------------------------------------------------------------------
(* The query *)

\* ruta_mas_corta has returned or raised
Respondida == pc \in {"main", "fin"} /\ origen # Ninguno

Registradas == origen \in DOMAIN aristas /\ destino \in DOMAIN aristas

NoNegativas ==
    \A a \in DOMAIN aristas : \A i \in DOMAIN aristas[a] : aristas[a][i].dist >= 0

\* A table of <<station, total>> pairs, one per station
Total(m, n) == (CHOOSE par \in m : par[1] = n)[2]

\* From the least totals of the walks of at most k edges from the origin,
\* those of the walks of at most k + 1 edges; Inf where there is no walk
UnaAristaMas(ar, m) ==
    {<<n, Min({Total(m, n)} \cup
              {Total(m, a) + Arista(ar[a], n).dist :
                 a \in {c \in DOMAIN ar : Total(m, c) # Inf /\ n \in Claves(ar[c])}})>> :
       n \in DOMAIN ar}

RECURSIVE MenorHasta(_, _, _)
MenorHasta(ar, m, k) ==
    IF k = 0 THEN m ELSE MenorHasta(ar, UnaAristaMas(ar, m), k - 1)

\* The least sum of dist over the paths from o to d. With no negative dist
\* a shortest path visits no station twice, so it has fewer edges than
\* there are stations.
DistanciaMinima(ar, o, d) ==
    Total(MenorHasta(ar, {<<n, IF n = o THEN 0 ELSE Inf>> : n \in DOMAIN ar},
                     Cardinality(DOMAIN ar)), d)

\* the sum of the dist of the edges of a path
RECURSIVE Largo(_, _, _)
Largo(ar, r, i) ==
    IF i > Len(r) - 1 THEN 0
    ELSE Arista(ar[r[i]], r[i + 1]).dist + Largo(ar, r, i + 1)

\* While no dist is negative the loops end before the bounds of the model
\* stop them.
CotasHolgadas ==
    NoNegativas =>
       /\ (pc = "dijkstra" /\ pq # {}) => pops < MaxPops
       /\ (pc = "camino" /\ Truthy(x)) => Len(camino) < MaxCamino

\* C2: when the origin or the destination is not a station of the graph,
\* ruta_mas_corta returns the pair (None, None) and raises nothing.
C2_EstacionDesconocida ==
    (Respondida /\ ~Registradas) => (error = "none" /\ retorno = "sentinel")

\* C3: over dist that are all non-negative, for two registered stations
\* joined by a path, ruta_mas_corta returns as total the least sum of dist
\* over the paths from the origin to the destination.
C3_Optimo ==
    (/\ Respondida
     /\ Registradas
     /\ NoNegativas
     /\ DistanciaMinima(aristas, origen, destino) # Inf)
    => /\ error = "none"
       /\ retorno = "ruta"
       /\ distancia = DistanciaMinima(aristas, origen, destino)

\* A query was answered over non-negative dist where the origin has an edge
\* to the destination that is longer than the total returned, the path
\* returned goes through a third station, and the loop ended on the pop of
\* the destination with an entry still queued.
C3_Testigo ==
    /\ pc = "fin"
    /\ retorno = "ruta"
    /\ Registradas
    /\ NoNegativas
    /\ destino \in Claves(aristas[origen])
    /\ Arista(aristas[origen], destino).dist > distancia
    /\ Len(ruta) = 3
    /\ ruta[1] = origen
    /\ pq # {}

\* C8: the total time of a returned path is the sum over its edges of the
\* edge's time when it has one and of dist / avg_speed * 60 when it has
\* none, for one average speed.
VelocidadesPosibles == 1..120

C8_TiempoEstimado ==
    (pc = "fin" /\ retorno = "ruta" /\ ruta # <<>>) =>
       \E vel \in VelocidadesPosibles :
         LET Minutos(i) ==
               LET e == Arista(aristas[ruta[i]], ruta[i + 1])
               IN IF e.time.some THEN e.time.val * vel ELSE e.dist * 60
             RECURSIVE Suma(_)
             Suma(i) == IF i > Len(ruta) - 1 THEN 0 ELSE Minutos(i) + Suma(i + 1)
         IN tiempo_total * vel = Suma(1)

\* C9: every query between two registered stations returns. The walk over
\* prev changes nothing but x and camino, so it ends only if it never comes
\* to a station it has already appended.
C9_ConsultaTermina ==
    (pc = "camino" /\ Registradas) => x \notin Range(camino)

\* C10: a path returned for two registered stations over non-negative dist
\* starts at the origin, ends at the destination, goes along edges of the
\* graph, and the total returned is the sum of the dist of those edges; a
\* query from a station to itself gives that station alone and 0.
C10_RutaBienFormada ==
    (Respondida /\ retorno = "ruta" /\ Registradas /\ NoNegativas) =>
       /\ ruta # <<>>
       /\ ruta[1] = origen
       /\ ruta[Len(ruta)] = destino
       /\ \A i \in 1..(Len(ruta) - 1) : ruta[i + 1] \in Claves(aristas[ruta[i]])
       /\ distancia = Largo(aristas, ruta, 1)
       /\ origen = destino => (ruta = <<origen>> /\ distancia = 0)

====
